---- MODULE Spec2Model ----
(***************************************************************************)
(* Model of best_of/generators/markdown_gallery.py: one run of             *)
(* MarkdownGalleryGenerator.write_output over a category -> project        *)
(* structure, with the screenshot side effect of generate_project_html.    *)
(*                                                                         *)
(* Strings are sequences of one-character strings.  Markup is kept as a    *)
(* sequence of blocks (header, table, details ...), string concatenation   *)
(* being sequence concatenation.                                           *)
(***************************************************************************)
EXTENDS Integers, Sequences, FiniteSets, TLC

VARIABLES config, categories, files, pc, markdown, output_file,
          mobile_file, calls, raised

vars == <<config, categories, files, pc, markdown, output_file,
          mobile_file, calls, raised>>

----------------------------------------------------------------------------
(* Bounds of the model.                                                    *)

MaxCaptures == 2      \* screenshot captures drawn per render pass
MaxProjects == 8      \* visible projects of a category in the grid inputs
MaxDescLen == 93      \* longest description drawn

----------------------------------------------------------------------------
(* Program constants.                                                      *)

DescMaxLen == 90                 \* shorten(description, 90)
DefaultProjectsPerRow == 3       \* config.get("projects_per_row", 3)
DefaultProjectsPerCategory == 6  \* config.get("projects_per_category", 6)
CellWidthTenths == 333           \* width="33.3%", in tenths of a percent
MobileProjectsPerRow == 1        \* mobile_config.projects_per_row = 1

Unset == -1                      \* an option absent from the configuration
DEFAULT_OTHERS_CATEGORY_ID == "others"
ScreenshotDir == <<"screenshots">>
DefaultImg == ScreenshotDir \o <<"0_default.png">>
Alpha == {"a", "b", "p", "q"}    \* the characters str.isalpha accepts here
Ellipsis == <<".", ".", ".">>

(* The ways save_screenshot ends: the image is written, or one of its      *)
(* awaited calls raises.                                                   *)
Outcomes == {"ok", "TimeoutError", "BrowserError", "PageError", "OSError"}

----------------------------------------------------------------------------
(* Python helpers.                                                         *)

Min(a, b) == IF a < b THEN a ELSE b

\* seq[lo:hi] for 0 <= lo, 0 <= hi
Slice(seq, lo, hi) == SubSeq(seq, lo + 1, Min(hi, Len(seq)))

\* config.get(key, default)
Get(cfg, key, default) == IF cfg[key] = Unset THEN default ELSE cfg[key]

RECURSIVE ChunkerFrom(_, _, _)
ChunkerFrom(seq, size, pos) ==
    IF pos >= Len(seq) THEN <<>>
    ELSE <<Slice(seq, pos, pos + size)>> \o ChunkerFrom(seq, size, pos + size)

chunker_wrong_step(seq, size) == ChunkerFrom(seq, size + 1, 0)

\* chunker: seq[pos : pos + size] for pos in range(0, len(seq), size)
chunker(seq, size) == ChunkerFrom(seq, size, 0)

shorten_ellipsis_outside(s, max_len) ==
    IF Len(s) > max_len THEN Slice(s, 0, max_len) \o Ellipsis ELSE s

shorten(s, max_len) ==
    IF Len(s) > max_len THEN Slice(s, 0, max_len - 3) \o Ellipsis ELSE s

IsAlpha(c) == c \in Alpha

\* "".join([c for c in project.name if c.isalpha()]) + ".png"
ImgFilename(name) == SelectSeq(name, IsAlpha) \o <<".png">>

----------------------------------------------------------------------------
(* save_screenshot: how the call ends is the environment's choice.  The    *)
(* file appears only when page.screenshot has completed.                   *)

save_screenshot(img_path, outcome, fs) ==
    [files  |-> IF outcome = "ok" THEN fs \cup {img_path} ELSE fs,
     raised |-> IF outcome = "ok" THEN "none" ELSE outcome]

(* The world threaded through one render pass: the screenshots directory,  *)
(* the outcomes of the captures still to come, the record of the           *)
(* generate_project_html calls made so far, the exception in flight.       *)
World(fs, oracle, cs, pass) ==
    [files |-> fs, oracle |-> oracle, calls |-> cs, raised |-> "none",
     short |-> FALSE, pass |-> pass]

\* the try/except around asyncio.run(save_screenshot(...))
TryCapture(img_path, w) ==
    IF w.oracle = <<>>
    THEN [img |-> img_path, captured |-> TRUE, outcome |-> "ok",
          w |-> [w EXCEPT !.short = TRUE]]
    ELSE LET outcome == Head(w.oracle)
             r == save_screenshot(img_path, outcome, w.files)
             w1 == [w EXCEPT !.files = r.files, !.oracle = Tail(w.oracle)]
         IN  IF r.raised = "none"
             THEN [img |-> img_path, captured |-> TRUE, outcome |-> outcome,
                   w |-> w1]
             ELSE IF r.raised = "TimeoutError"
             THEN [img |-> DefaultImg, captured |-> TRUE,
                   outcome |-> outcome, w |-> w1]
             ELSE [img |-> img_path, captured |-> TRUE, outcome |-> outcome,
                   w |-> [w1 EXCEPT !.raised = r.raised]]

ResolveImage_no_homepage_check(project, configuration, w) ==
    LET img_path == ScreenshotDir \o ImgFilename(project.name)
        keep(img) == [img |-> img, captured |-> FALSE, outcome |-> "none",
                      w |-> w]
    IN  IF project.image # <<>> THEN keep(project.image)
        ELSE IF configuration.skip_screenshots
        THEN IF img_path \notin w.files THEN keep(DefaultImg)
             ELSE keep(img_path)
        ELSE IF ~(configuration.skip_existing_screenshots
                  /\ img_path \in w.files)
        THEN TryCapture(img_path, w)
        ELSE keep(img_path)

\* the image part of generate_project_html
ResolveImage(project, configuration, w) ==
    LET img_path == ScreenshotDir \o ImgFilename(project.name)
        keep(img) == [img |-> img, captured |-> FALSE, outcome |-> "none",
                      w |-> w]
    IN  IF project.image # <<>> THEN keep(project.image)
        ELSE IF configuration.skip_screenshots
        THEN IF img_path \notin w.files THEN keep(DefaultImg)
             ELSE keep(img_path)
        ELSE IF ~(configuration.skip_existing_screenshots
                  /\ img_path \in w.files)
        THEN IF project.homepage = project.github_url THEN keep(DefaultImg)
             ELSE TryCapture(img_path, w)
        ELSE keep(img_path)

\* the description part of generate_project_html; description[-1] of an
\* empty string raises IndexError
DescriptionText(description) ==
    IF description = <<>> THEN [raised |-> "IndexError", text |-> <<>>]
    ELSE LET stripped == IF description[Len(description)] = "."
                         THEN Slice(description, 0, Len(description) - 1)
                         ELSE description
         IN  [raised |-> "none", text |-> shorten(stripped, DescMaxLen)]

\* generate_project_html once the image is resolved (im): the markup of
\* the card
CardHtml(project, w, im) ==
    LET call == [pass |-> w.pass, project |-> project,
                 exists |-> (ScreenshotDir \o ImgFilename(project.name))
                                \in w.files,
                 captured |-> im.captured, outcome |-> im.outcome,
                 img |-> im.img]
        w1 == [im.w EXCEPT !.calls = Append(@, call)]
        d == DescriptionText(project.description)
        card(text) == [name |-> project.name, img |-> im.img,
                       description |-> text]
    IN  IF w1.raised # "none" THEN [html |-> card(<<>>), w |-> w1]
        ELSE IF d.raised # "none"
        THEN [html |-> card(<<>>), w |-> [w1 EXCEPT !.raised = d.raised]]
        ELSE [html |-> card(d.text), w |-> w1]

generate_project_html(project, configuration, w) ==
    CardHtml(project, w, ResolveImage(project, configuration, w))

----------------------------------------------------------------------------
(* Markup blocks.  A table block carries its rows, a row its cells, a cell *)
(* its width attribute and the card.                                       *)

Block(t, title, n, rows) == [t |-> t, title |-> title, n |-> n, rows |-> rows]

(* The for loops below carry the loop's state acc (the markup so far and   *)
(* the world) from one iteration to the next, each iteration's result      *)
(* being computed once; an exception in flight ends the loop.              *)

\* table_html += f'<td valign="top" width="33.3%">{project_md}</td>'
AppendCell(acc, c) ==
    [html |-> Append(acc.html, [width |-> CellWidthTenths, card |-> c.html]),
     w |-> c.w]

\* for project in project_row: one <td> with the card of the project
RenderCell(project, cfg, acc) ==
    AppendCell(acc, generate_project_html(project, cfg, acc.w))

\* for project in project_row
RECURSIVE RenderCells(_, _, _)
RenderCells(project_row, cfg, acc) ==
    IF project_row = <<>> \/ acc.w.raised # "none" THEN acc
    ELSE CHOOSE result \in
             {RenderCells(Tail(project_row), cfg, next) :
                  next \in {RenderCell(Head(project_row), cfg, acc)}} : TRUE

\* table_html += "</tr>"
AppendRow(acc, r) == [html |-> Append(acc.html, r.html), w |-> r.w]

\* one <tr> with the cells of the row
RenderRow(project_row, cfg, acc) ==
    AppendRow(acc, RenderCells(project_row, cfg,
                               [html |-> <<>>, w |-> acc.w]))

\* for project_row in chunker(...)
RECURSIVE RenderRows(_, _, _)
RenderRows(chunks, cfg, acc) ==
    IF chunks = <<>> \/ acc.w.raised # "none" THEN acc
    ELSE CHOOSE result \in
             {RenderRows(Tail(chunks), cfg, next) :
                  next \in {RenderRow(Head(chunks), cfg, acc)}} : TRUE

generate_table_html(projects, cfg, w) ==
    RenderRows(chunker(projects,
                       Get(cfg, "projects_per_row", DefaultProjectsPerRow)),
               cfg, [html |-> <<>>, w |-> w])

DoNotShow_others_forgotten(category, cfg) ==
    /\ cfg.hide_empty_categories
    /\ category.projects = <<>>
    /\ category.hidden_projects = <<>>

\* the condition under which a category is not shown at all
DoNotShow(category, cfg) ==
    /\ (cfg.hide_empty_categories
           \/ category.category = DEFAULT_OTHERS_CATEGORY_ID)
    /\ category.projects = <<>>
    /\ category.hidden_projects = <<>>

\* category.projects[:num_shown]
TopProjects(projects, num_shown) == Slice(projects, 0, num_shown)

OtherProjects_off_by_one(projects, num_shown) ==
    Slice(projects, num_shown + 1, Len(projects))

\* category.projects[num_shown:]
OtherProjects(projects, num_shown) == Slice(projects, num_shown, Len(projects))

\* the markup of a category that is shown, given its table (shown) and
\* the table of its expander (more)
CategoryMd(category, num_shown, shown, more) ==
    LET header == <<Block("header", category.title, 0, <<>>)>>
        table_md == IF category.projects # <<>>
                    THEN <<Block("table", category.title, 0, shown.html)>>
                    ELSE <<>>
        details_md == IF category.projects # <<>>
                         /\ Len(category.projects) > num_shown
                      THEN <<Block("details", category.title,
                                   Len(category.projects) - num_shown,
                                   more.html)>>
                      ELSE <<>>
        hidden_md == IF category.hidden_projects # <<>>
                     THEN <<Block("hidden", category.title,
                                  Len(category.hidden_projects), <<>>)>>
                     ELSE <<>>
    IN  [md |-> <<Block("br", "", 0, <<>>)>> \o header \o table_md
                    \o details_md \o hidden_md,
         w |-> more.w]

\* if len(category.projects) > num_shown: hidden_table_html = ...
HideOthers(category, cfg, num_shown, shown) ==
    CategoryMd(category, num_shown, shown,
               IF shown.w.raised = "none"
                  /\ Len(category.projects) > num_shown
               THEN generate_table_html(
                        OtherProjects(category.projects, num_shown), cfg,
                        shown.w)
               ELSE [html |-> <<>>, w |-> shown.w])

\* if category.projects: num_shown = ...; table_html = ...
ShowProjects(category, cfg, num_shown, w) ==
    HideOthers(category, cfg, num_shown,
               generate_table_html(
                   TopProjects(category.projects, num_shown), cfg, w))

generate_category_gallery_md(category, cfg, w) ==
    IF DoNotShow(category, cfg)
    THEN [md |-> <<>>, w |-> w]
    ELSE IF category.projects # <<>>
    THEN ShowProjects(category, cfg,
                      Get(cfg, "projects_per_category",
                          DefaultProjectsPerCategory), w)
    ELSE CategoryMd(category, 0, [html |-> <<>>, w |-> w],
                    [html |-> <<>>, w |-> w])

\* the first loop of generate_md, category_count only
RECURSIVE CountCategories(_, _)
CountCategories(cats, cfg) ==
    IF cats = <<>> THEN 0
    ELSE (IF ~cfg.hide_empty_categories
             \/ Head(cats).projects # <<>>
             \/ Head(cats).hidden_projects # <<>>
          THEN 1 ELSE 0) + CountCategories(Tail(cats), cfg)

\* the first loop of generate_md, project_count only
RECURSIVE CountProjects(_)
CountProjects(cats) ==
    IF cats = <<>> THEN 0
    ELSE Len(Head(cats).projects) + Len(Head(cats).hidden_projects)
             + CountProjects(Tail(cats))

\* if category_count > 0: category_count -= 1
CategoryCount(cats, cfg) ==
    LET category_count == CountCategories(cats, cfg)
    IN  IF category_count > 0 THEN category_count - 1 ELSE category_count

\* full_markdown += generate_category_gallery_md(...)
AppendCategory(acc, c) == [md |-> Append(acc.md, c.md), w |-> c.w]

RenderCategory(category, cfg, acc) ==
    AppendCategory(acc, generate_category_gallery_md(category, cfg, acc.w))

\* for category in categories
RECURSIVE RenderCategories(_, _, _)
RenderCategories(cats, cfg, acc) ==
    IF cats = <<>> \/ acc.w.raised # "none" THEN acc
    ELSE CHOOSE result \in
             {RenderCategories(Tail(cats), cfg, next) :
                  next \in {RenderCategory(Head(cats), cfg, acc)}} : TRUE

\* the document of generate_md, given its category sections (body)
Document(cats, cfg, body) ==
    [md |-> [category_count |-> CategoryCount(cats, cfg),
             project_count |-> CountProjects(cats),
             sections |-> body.md],
     w |-> body.w]

generate_md(cats, cfg, w) ==
    Document(cats, cfg,
             RenderCategories(cats, cfg, [md |-> <<>>, w |-> w]))

----------------------------------------------------------------------------
(* Inputs: the category -> project structures and configurations the       *)
(* generator is run on.                                                    *)

Project(name, image, homepage, description) ==
    [name |-> name, image |-> image, homepage |-> homepage,
     github_url |-> "gh", description |-> description]

Category(id, projects, hidden_projects) ==
    [category |-> id, title |-> id, projects |-> projects,
     hidden_projects |-> hidden_projects]

Config(skip, skip_existing, hide, per_category, per_row, mobile) ==
    [skip_screenshots |-> skip, skip_existing_screenshots |-> skip_existing,
     hide_empty_categories |-> hide, projects_per_category |-> per_category,
     projects_per_row |-> per_row, mobile_version |-> mobile]

PWebA == Project(<<"a">>, <<>>, "web", <<"x", ".">>)
PWebB == Project(<<"b", "1">>, <<>>, "web", <<"x">>)
PGit == Project(<<"q">>, <<>>, "gh", <<"x", ".">>)
PImg == Project(<<"p", "1">>, <<"img.png">>, "web", <<".">>)
PEmpty == Project(<<"p">>, <<>>, "web", <<>>)

RunCategories ==
    { <<Category("a", <<PWebA, PWebB>>, <<>>),
        Category(DEFAULT_OTHERS_CATEGORY_ID, <<>>, <<>>)>>,
      <<Category("a", <<PWebA>>, <<>>), Category("b", <<>>, <<>>),
        Category(DEFAULT_OTHERS_CATEGORY_ID, <<PGit>>, <<>>)>>,
      <<Category("a", <<PImg, PGit, PWebB>>, <<>>)>>,
      <<Category("a", <<PEmpty>>, <<>>),
        Category(DEFAULT_OTHERS_CATEGORY_ID, <<>>, <<>>)>>,
      <<Category("a", <<>>, <<>>),
        Category(DEFAULT_OTHERS_CATEGORY_ID, <<>>, <<>>)>>,
      <<Category("a", <<>>, <<PGit>>),
        Category(DEFAULT_OTHERS_CATEGORY_ID, <<>>, <<>>)>>,
      <<Category(DEFAULT_OTHERS_CATEGORY_ID, <<PWebA>>, <<>>)>> }

RunFiles == SUBSET { ScreenshotDir \o ImgFilename(PWebA.name),
                     ScreenshotDir \o ImgFilename(PWebB.name) }

\* a category of n projects that all declare their image
GridProject(i) == Project(<<"p", ToString(i)>>, <<"img.png">>, "web", <<"x">>)
GridCategories(n) ==
    <<Category("a", [i \in 1..n |-> GridProject(i)], <<>>)>>

RowSizes == {Unset, 1, 2, 4}
CategorySizes == {Unset, 0, 1, 2}

\* descriptions of n characters: no period, one or two trailing periods,
\* periods only
Description(n, pat) ==
    [i \in 1..n |-> IF \/ pat = 1 /\ i = n
                       \/ pat = 2 /\ i >= n - 1
                       \/ pat = 3
                    THEN "." ELSE "x"]

DescCategories(n, pat) ==
    <<Category("a", <<Project(<<"p">>, <<"img.png">>, "web",
                              Description(n, pat))>>, <<>>)>>

Init ==
    /\ \/ /\ \E skip, skip_existing, hide, mobile \in BOOLEAN :
                config = Config(skip, skip_existing, hide, Unset, Unset,
                                mobile)
          /\ categories \in RunCategories
          /\ files \in RunFiles
       \/ /\ \E per_category \in CategorySizes, per_row \in RowSizes,
                mobile \in BOOLEAN :
                config = Config(TRUE, FALSE, FALSE, per_category, per_row,
                                mobile)
          /\ \E n \in 0..MaxProjects : categories = GridCategories(n)
          /\ files = {}
       \/ /\ config = Config(TRUE, FALSE, FALSE, Unset, Unset, FALSE)
          /\ \E n \in 1..MaxDescLen, pat \in 0..3 :
                categories = DescCategories(n, pat)
          /\ files = {}
    /\ pc = "start"
    /\ markdown = <<>>
    /\ output_file = <<>>
    /\ mobile_file = <<>>
    /\ calls = <<>>
    /\ raised = "none"

----------------------------------------------------------------------------
(* write_output, one step per generate_md call and file write.             *)

\* markdown = generate_md(categories=categories, config=config, ...)
GenerateMain ==
    /\ pc = "start"
    /\ \E n \in 0..MaxCaptures : \E oracle \in [1..n -> Outcomes] :
          \E r \in {generate_md(categories, config,
                              World(files, oracle, calls, "main"))} :
              /\ ~r.w.short
              /\ r.w.oracle = <<>>
              /\ files' = r.w.files
              /\ calls' = r.w.calls
              /\ raised' = r.w.raised
              /\ IF r.w.raised = "none"
                 THEN markdown' = <<r.md>> /\ pc' = "generated"
                 ELSE markdown' = markdown /\ pc' = "raised"
    /\ UNCHANGED <<config, categories, output_file, mobile_file>>

\* with open(config.output_file, "w") as f: f.write(markdown)
WriteMarkdown ==
    /\ pc = "generated"
    /\ output_file' = markdown
    /\ pc' = "written"
    /\ UNCHANGED <<config, categories, files, markdown, mobile_file, calls,
                   raised>>

\* mobile_config = Dict(config); mobile_config.projects_per_row = 1
MobileConfig(cfg) == [cfg EXCEPT !.projects_per_row = MobileProjectsPerRow]

\* if config.mobile_version: ... generate_md(config=mobile_config) ... write
GenerateMobile ==
    /\ pc = "written"
    /\ config.mobile_version
    /\ \E n \in 0..MaxCaptures : \E oracle \in [1..n -> Outcomes] :
          \E r \in {generate_md(categories, MobileConfig(config),
                              World(files, oracle, calls, "mobile"))} :
              /\ ~r.w.short
              /\ r.w.oracle = <<>>
              /\ files' = r.w.files
              /\ calls' = r.w.calls
              /\ raised' = r.w.raised
              /\ IF r.w.raised = "none"
                 THEN mobile_file' = <<r.md>> /\ pc' = "done"
                 ELSE mobile_file' = mobile_file /\ pc' = "raised"
    /\ UNCHANGED <<config, categories, markdown, output_file>>

\* write_output returns when no mobile version is asked for
Return ==
    /\ pc = "written"
    /\ ~config.mobile_version
    /\ pc' = "done"
    /\ UNCHANGED <<config, categories, files, markdown, output_file,
                   mobile_file, calls, raised>>

Next == GenerateMain \/ WriteMarkdown \/ GenerateMobile \/ Return

Spec == Init /\ [][Next]_vars

----------------------------------------------------------------------------
(* Vocabulary of the properties.                                           *)

\* the documents rendered so far, each with the row size of its pass
Rendered ==
    {<<markdown[i], Get(config, "projects_per_row", DefaultProjectsPerRow)>>
         : i \in DOMAIN markdown}
    \cup {<<mobile_file[i], MobileProjectsPerRow>> : i \in DOMAIN mobile_file}

RECURSIVE Flatten(_)
Flatten(seqs) == IF seqs = <<>> THEN <<>> ELSE Head(seqs) \o Flatten(Tail(seqs))

IsTable(b) == b.t = "table"
IsDetails(b) == b.t = "details"
IsHeader(b) == b.t = "header"

\* the cells of the primary grid and of the overflow disclosure of a section
PrimaryCells(section) ==
    Flatten([i \in DOMAIN SelectSeq(section, IsTable)
                 |-> Flatten(SelectSeq(section, IsTable)[i].rows)])
OverflowCells(section) ==
    Flatten([i \in DOMAIN SelectSeq(section, IsDetails)
                 |-> Flatten(SelectSeq(section, IsDetails)[i].rows)])

CellNames(cells) == [i \in DOMAIN cells |-> cells[i].card.name]
Names(projects) == [i \in DOMAIN projects |-> projects[i].name]

NumShown == Get(config, "projects_per_category", DefaultProjectsPerCategory)

Ceil(n, k) == (n + k - 1) \div k

IsEmptyCategory(c) == c.projects = <<>> /\ c.hidden_projects = <<>>

HasHeader(section, c) ==
    \E i \in DOMAIN section : IsHeader(section[i]) /\ section[i].title = c.title

----------------------------------------------------------------------------
(* C1: generate_project_html attempts a capture exactly when the project   *)
(* declares no image, skip_screenshots is off, it is not the case that     *)
(* skip_existing_screenshots is on and the computed file exists, and the   *)
(* homepage differs from github_url; with skip_screenshots on nothing is   *)
(* captured and the image is the computed path if it exists, else the      *)
(* default placeholder.                                                    *)
C1_CaptureIff ==
    \A i \in DOMAIN calls :
        LET e == calls[i]
            computed == ScreenshotDir \o ImgFilename(e.project.name)
        IN  /\ e.captured <=>
                  /\ e.project.image = <<>>
                  /\ ~config.skip_screenshots
                  /\ ~(config.skip_existing_screenshots /\ e.exists)
                  /\ e.project.homepage # e.project.github_url
            /\ config.skip_screenshots =>
                  /\ ~e.captured
                  /\ e.project.image = <<>> =>
                        e.img = IF e.exists THEN computed ELSE DefaultImg

C1_Witness ==
    /\ pc = "done"
    /\ \E i, j \in DOMAIN calls :
          /\ calls[i].captured
          /\ ~calls[j].captured /\ calls[j].project.image = <<>>
                /\ calls[j].exists /\ config.skip_existing_screenshots

(* C2: no failure of a screenshot capture propagates out of the render:    *)
(* whatever way save_screenshot fails, write_output does not raise it.     *)
C2_CaptureFailureNeverPropagates ==
    raised \notin (Outcomes \ {"ok"})

(* C3: rendering the card of a project whose description is the empty      *)
(* string does not fault.                                                  *)
C3_EmptyDescriptionDoesNotFault ==
    raised # "IndexError"

(* C4: the category count handed to the templates is the number of counted *)
(* categories, reduced by one exactly when the "others" category was among *)
(* the counted ones.                                                       *)
C4_CategoryCount ==
    \A d \in Rendered :
        LET counted == {i \in DOMAIN categories :
                            \/ ~config.hide_empty_categories
                            \/ ~IsEmptyCategory(categories[i])}
            others == {i \in counted :
                           categories[i].category = DEFAULT_OTHERS_CATEGORY_ID}
        IN  d[1].category_count
                = Cardinality(counted) - (IF others # {} THEN 1 ELSE 0)

(* C5: a category without visible and hidden projects renders to the empty *)
(* string when hide_empty_categories is set or it is the "others"          *)
(* category, and to markup with its header otherwise; a category with a    *)
(* project always renders its header.                                      *)
C5_EmptyCategory ==
    \A d \in Rendered : \A i \in DOMAIN categories :
        LET c == categories[i]
            section == d[1].sections[i]
        IN  IF IsEmptyCategory(c)
               /\ (config.hide_empty_categories
                      \/ c.category = DEFAULT_OTHERS_CATEGORY_ID)
            THEN section = <<>>
            ELSE section # <<>> /\ HasHeader(section, c)

C5_Witness ==
    \E d \in Rendered : \E i, j \in DOMAIN categories :
        /\ IsEmptyCategory(categories[i]) /\ d[1].sections[i] = <<>>
        /\ IsEmptyCategory(categories[j]) /\ d[1].sections[j] # <<>>

C7_DescriptionLength ==
    \A d \in Rendered : \A i \in DOMAIN categories :
        LET projects == categories[i].projects
            cells == PrimaryCells(d[1].sections[i])
                         \o OverflowCells(d[1].sections[i])
        IN  \A j \in DOMAIN projects \cap DOMAIN cells :
                LET description == projects[j].description
                    text == cells[j].card.description
                    n == Len(description)
                    stripped == IF description[n] = "."
                                THEN SubSeq(description, 1, n - 1)
                                ELSE description
                IN  description # <<>> =>
                        /\ Len(text) <= 90
                        /\ text = IF Len(stripped) <= 90 THEN stripped
                                  ELSE SubSeq(stripped, 1, 87) \o Ellipsis

C7_Witness ==
    \E d \in Rendered :
        LET cells == PrimaryCells(d[1].sections[1])
        IN  /\ cells # <<>>
            /\ Len(categories[1].projects[1].description) = 92
            /\ categories[1].projects[1].description[92] = "."
            /\ Len(cells[1].card.description) = 90
            /\ cells[1].card.description[88] = "."
            /\ cells[1].card.description[87] = "x"

(* C8: a table of N projects with row size K has ceil(N/K) rows, each of   *)
(* K cells except the last of N - K*(ceil(N/K) - 1), the cells in          *)
(* row-major order being the projects in input order; no rows for N = 0.   *)
C8_Rows ==
    \A d \in Rendered : \A i \in DOMAIN categories :
        LET projects == categories[i].projects
            section == d[1].sections[i]
            K == d[2]
            input(b) == IF IsTable(b)
                        THEN SubSeq(projects, 1, Min(Len(projects), NumShown))
                        ELSE SubSeq(projects, NumShown + 1, Len(projects))
        IN  \A k \in DOMAIN section :
                IsTable(section[k]) \/ IsDetails(section[k]) =>
                    LET rows == section[k].rows
                        N == Len(input(section[k]))
                    IN  /\ Len(rows) = Ceil(N, K)
                        /\ \A r \in DOMAIN rows :
                              Len(rows[r]) = IF r < Len(rows) THEN K
                                             ELSE N - K * (Ceil(N, K) - 1)
                        /\ CellNames(Flatten(rows))
                              = Names(input(section[k]))

C8_Witness ==
    \E d \in Rendered : \E k \in DOMAIN d[1].sections[1] :
        LET b == d[1].sections[1][k]
        IN  /\ IsDetails(b)
            /\ d[2] = 2
            /\ Len(b.rows) = 3
            /\ Len(b.rows[3]) = 1
            /\ \E j \in DOMAIN d[1].sections[1] :
                  IsTable(d[1].sections[1][j])
                      /\ d[1].sections[1][j].rows = <<>>

(* C9: within one run of write_output a capture that failed for a project  *)
(* is not attempted again for that project.                                *)
C9_FailedCaptureNotReattempted ==
    \A i, j \in DOMAIN calls :
        /\ i < j
        /\ calls[i].captured /\ calls[i].outcome # "ok"
        /\ calls[j].project.name = calls[i].project.name
        => ~calls[j].captured

(* C10: every cell of a table has width 100/projects_per_row percent for   *)
(* the projects_per_row of its render pass: 100% in the mobile variant,    *)
(* 33.3% for the default of 3.                                             *)
C10_CellWidth ==
    \A d \in Rendered : \A i \in DOMAIN d[1].sections :
        LET cells == PrimaryCells(d[1].sections[i])
                         \o OverflowCells(d[1].sections[i])
        IN  \A j \in DOMAIN cells : cells[j].width = 1000 \div d[2]

====
